---- MODULE Spec2Model ----
(***************************************************************************)
(* Model of the Resemble.AI Live STS socket client (src/main.py).          *)
(*                                                                         *)
(* Three threads of execution share the module-level state of main.py:     *)
(*   - the main thread, running main() step by step (pc_main);             *)
(*   - the Socket.IO event thread, running on_response / on_message /      *)
(*     on_disconnect of SynthesizeNamespace;                               *)
(*   - the PortAudio callback thread(s), running audio_callback and        *)
(*     playback_callback while the corresponding stream is active.         *)
(* playback_queue (queue.Queue) and rtf_list are the shared objects.       *)
(***************************************************************************)
EXTENDS Integers, Sequences, FiniteSets, TLC

VARIABLES
    args,           \* input_device / output_device: the command-line options,
                    \* then the pair main() is called with
    codec,          \* a block taken through the capture encoding and the
                    \* inbound decoding on its own
    pc_main,        \* position of the main thread in __main__ and main()
    main_error,     \* exception that left main() uncaught, or "none"
    channel,        \* sio: "idle", "connected", "lost" (reconnecting), "closed"
    sent,           \* events emitted on the namespace, in order
    wav,            \* wav_file: "unopened", "open", "closed"
    wav_frames,     \* blocks written to wav_file
    wav_closes,     \* number of wav_file.close() calls
    in_stream,      \* sd.InputStream: "closed", "active", "aborted"
    out_stream,     \* sd.OutputStream: "closed", "active", "aborted"
    playback_queue, \* queue.Queue of (audio_data, response_time)
    rtf_list,       \* module-level list of RTF samples (rationals)
    avg_rtf,        \* value formatted by the final report, or <<>>
    pc_play,        \* playback_callback: "idle", or "get" between empty() and get()
    outdata,        \* the output buffer handed to playback_callback
    play_result,    \* outcome of the last playback_callback invocation
    play_log,       \* warnings the last playback_callback invocation logged about the block
    cap_result,     \* outcome of the last audio_callback invocation
    msg_log,        \* severities logged by the last on_message invocation
    msg_error,      \* exception that left the last on_message invocation, or "none"
    resp_result,    \* outcome of the last on_response invocation
    popped_seq,     \* put number of the entry the last get() returned, 0 if none
    nPushed,        \* number of playback_queue.put calls
    nPopped,        \* number of playback_queue.get calls
    nDropped,       \* number of on_response invocations that raised
    nCaptured       \* number of audio_callback invocations

vars == <<args, codec, pc_main, main_error, channel, sent, wav, wav_frames, wav_closes,
          in_stream, out_stream, playback_queue, rtf_list, avg_rtf, pc_play,
          outdata, play_result, play_log, cap_result, msg_log, msg_error,
          resp_result, popped_seq, nPushed, nPopped, nDropped, nCaptured>>

cfgVars == <<args, codec>>
mainVars == <<pc_main, main_error, avg_rtf>>
fileVars == <<wav, wav_frames, wav_closes>>
playVars == <<pc_play, outdata, play_result, play_log, rtf_list, nPopped, popped_seq>>
queueVars == <<playback_queue, resp_result, nPushed, nDropped>>
capVars == <<cap_result, nCaptured>>
msgVars == <<msg_log, msg_error>>

----------------------------------------------------------------------------
(* Bounds of the model *)

\* frames per callback (chunk_size = CHUNK_SIZE_MULT * num_chunks), scaled down
Frames == 2
\* inbound audio responses handled in one session
MaxPush == 3
\* entries waiting in playback_queue at one time (queue.Queue() itself is unbounded)
MaxQueue == 2
\* audio_callback invocations in one session
MaxCapture == 1
\* status messages are not counted: on_message only overwrites the record of
\* its last invocation

\* samples in a block taken through the codec on its own
CodecLen == 2

\* constants.SAMPLERATE
SAMPLERATE == 48000

----------------------------------------------------------------------------
(* Input domains *)

\* wall clock readings, time.time() * 1000
Clock == {1060}
\* msg['timestamp'] values echoed by the server
Timestamps == {1000}
\* first byte of the byte patterns used as inbound payloads
PayloadBases == {1}
\* byte lengths of inbound payloads: empty, odd, short, exact and too long
PayloadLens == 0 .. (2 * Frames + 2)
Payloads ==
    { [i \in 1..n |-> (b + i - 1) % 256] : n \in PayloadLens, b \in PayloadBases }
\* captured blocks: float32 samples in [-1, 1], in thousandths
InSamples == {-1000, 500}
Indata == { [i \in 1..Frames |-> v] : v \in InSamples }
\* --input_device / --output_device: absent (None, kept as -1) or a device
\* index, which is never negative
None == -1
InputDevices == {0}
OutputDevices == {1}
Args ==
    [input_device : {None} \cup InputDevices,
     output_device : {None} \cup OutputDevices]
\* float32 samples of a captured block, in thousandths, with both ends of the
\* range and values that do not quantize to a whole number
CodecSamples == {-1000, -999, -1, 0, 1, 500, 1000}
CodecIndata ==
    UNION { [1..n -> CodecSamples] : n \in 0..CodecLen }
\* HTTP status codes carried by status messages
Statuses == {200, 201, 299, 300, 350, 399, 400, 404, 500}

----------------------------------------------------------------------------
(* Frame decoding, as on_response does it *)

\* a decoder that reads the words as unsigned ('<H')
Int16LE_unsigned(lo, hi) == lo + 256 * hi

\* one '<h' word: little-endian, two's complement
Int16LE(lo, hi) ==
    LET u == lo + 256 * hi IN IF u >= 32768 THEN u - 65536 ELSE u

\* a decoder that ignores a trailing odd byte instead of raising
UnpackFails_lenient(data) == FALSE

\* struct.unpack('<%sh' % (len(data) // 2), data) raises struct.error unless
\* the buffer holds exactly 2 * (len(data) // 2) bytes
UnpackFails(data) == Len(data) # 2 * (Len(data) \div 2)

\* the unpacked words, np.array(unpacked_data, dtype=AUDIO_FORMAT)
Unpack(data) ==
    [i \in 1..(Len(data) \div 2) |-> Int16LE(data[2 * i - 1], data[2 * i])]

\* response_time = time.time() * 1000 - timestamp
ResponseTime(now, timestamp) == now - timestamp

\* a put that inserts at the head (a LifoQueue in place of the Queue)
QueuePut_lifo(q, item) == <<item>> \o q

\* queue.Queue.put: append at the tail
QueuePut(q, item) == Append(q, item)

\* queue.Queue.get on a non-empty queue: the head is returned and removed
QueueHead(q) == Head(q)
QueueRest(q) == Tail(q)

\* the emptiness test with its sense inverted
QueueEmpty_inverted(q) == Len(q) # 0

\* queue.Queue.empty()
QueueEmpty(q) == Len(q) = 0

----------------------------------------------------------------------------
(* RTF arithmetic; a float is kept as an exact fraction <<num, den>> *)

\* a duration taken from the block size of the stream instead of the length of
\* the block that was received
PlaybackDuration_chunk(audio_length) == <<1000 * Frames, SAMPLERATE>>

\* playback_duration = 1000 * audio_length / SAMPLERATE
PlaybackDuration(audio_length) == <<1000 * audio_length, SAMPLERATE>>

\* processing_time / playback_duration; Python raises ZeroDivisionError when
\* playback_duration is 0.0
RtfDivides(duration) == duration[1] # 0
RtfSample(processing_time, duration) ==
    <<processing_time * duration[2], duration[1]>>

\* rtf_list[5:]
WarmUp == 5
Slice5(l) == SubSeq(l, WarmUp + 1, Len(l))

RECURSIVE FracSum(_)
\* sum(...) over fractions
FracSum(l) ==
    IF l = <<>> THEN <<0, 1>>
    ELSE LET h == Head(l)
             r == FracSum(Tail(l))
         IN  <<h[1] * r[2] + r[1] * h[2], h[2] * r[2]>>

\* sum(rtf_list[5:]) / len(rtf_list[5:]); ZeroDivisionError on an empty slice
ReportFails(l) == Len(Slice5(l)) = 0
ReportValue(l) ==
    LET s == FracSum(Slice5(l)) IN <<s[1], s[2] * Len(Slice5(l))>>

----------------------------------------------------------------------------
(* The Socket.IO client *)

\* socketio.Client.emit: raises BadNamespaceError unless the namespace is connected
EmitRaises(ch) == ch # "connected"
\* an emit that delivers the event twice
Emit_twice(log, event, data) ==
    Append(Append(log, [event |-> event, data |-> data]),
           [event |-> event, data |-> data])

\* socketio.Client.emit on a connected namespace: the event goes out, in order
Emit(log, event, data) == Append(log, [event |-> event, data |-> data])

\* the VoiceSettings record handed to main()
voice_settings ==
    [voice |-> "Mike", crossFadeOffsetRate |-> 1, crossFadeEndRate |-> 9,
     crossFadeOverlapSize |-> 2048, extraConvertSize |-> 8192, gpu |-> 0,
     pitch |-> 0, vad |-> 2]

Zeros == [i \in 1..Frames |-> 0]

\* the codec exercise is not part of a session
CodecOff == [pc |-> "off"]

\* the module-level state of main.py and the objects main() creates, before
\* the first statement of __main__
InitSession ==
    /\ pc_main = "parse_args"
    /\ main_error = "none"
    /\ channel = "idle"
    /\ sent = <<>>
    /\ wav = "unopened"
    /\ wav_frames = <<>>
    /\ wav_closes = 0
    /\ in_stream = "closed"
    /\ out_stream = "closed"
    /\ playback_queue = <<>>
    /\ rtf_list = <<>>
    /\ avg_rtf = <<>>
    /\ pc_play = "idle"
    /\ outdata = Zeros
    /\ play_result = "none"
    /\ play_log = {}
    /\ cap_result = "none"
    /\ msg_log = <<>>
    /\ msg_error = "none"
    /\ resp_result = "none"
    /\ popped_seq = 0
    /\ nPushed = 0
    /\ nPopped = 0
    /\ nDropped = 0
    /\ nCaptured = 0

Init ==
    /\ InitSession
    /\ args \in Args
    /\ codec = CodecOff

----------------------------------------------------------------------------
(* The main thread: main(), one action per statement with a visible effect *)

\* a main() that logs a connection error and carries on
Uncaught_swallowed(exc) ==
    /\ pc_main' = IF exc = "ConnectionError" THEN "change_settings" ELSE "failed"
    /\ main_error' = exc

\* where an exception raised in main() outside the try block leaves it
Uncaught(exc) ==
    /\ pc_main' = "failed"
    /\ main_error' = exc

\* the pairing test of parse_args with only one side of it
ArgsMismatch_inputonly(a) ==
    a.input_device # None /\ a.output_device = None

\* (args.input_device is None) != (args.output_device is None)
ArgsMismatch(a) ==
    (a.input_device = None) # (a.output_device = None)

\* parse_args(): parser.error prints the usage and raises SystemExit(2)
parse_args ==
    /\ pc_main = "parse_args"
    /\ IF ArgsMismatch(args)
       THEN Uncaught("SystemExit")
       ELSE /\ pc_main' = "select_devices"
            /\ main_error' = main_error
    /\ UNCHANGED <<cfgVars, avg_rtf, channel, sent, fileVars, in_stream,
                   out_stream, playVars, queueVars, capVars, msgVars>>

\* Select audio devices: the pair given on the command line, or the pair the
\* user picks in choose_devices(); then main() is called with it
select_devices ==
    /\ pc_main = "select_devices"
    /\ IF args.input_device # None /\ args.output_device # None
       THEN args' = args
       ELSE \E i \in InputDevices, o \in OutputDevices :
                args' = [input_device |-> i, output_device |-> o]
    /\ pc_main' = "connect"
    /\ UNCHANGED <<codec, main_error, avg_rtf, channel, sent, fileVars,
                   in_stream, out_stream, playVars, queueVars, capVars,
                   msgVars>>

\* sio.connect(server_url, ...): returns once the namespace is connected, or
\* raises socketio.exceptions.ConnectionError, which nothing in main() catches
main_connect ==
    /\ pc_main = "connect"
    /\ \E ok \in BOOLEAN :
        IF ok
        THEN /\ channel' = "connected"
             /\ pc_main' = "change_settings"
             /\ main_error' = main_error
        ELSE /\ Uncaught("ConnectionError")
             /\ channel' = channel
    /\ UNCHANGED <<cfgVars, avg_rtf, sent, fileVars, in_stream, out_stream, playVars,
                   queueVars, capVars, msgVars>>

\* synthesize.change_settings(voice_settings)
change_settings ==
    /\ pc_main = "change_settings"
    /\ IF EmitRaises(channel)
       THEN /\ Uncaught("BadNamespaceError")
            /\ sent' = sent
       ELSE /\ sent' = Emit(sent, "update_model_settings", voice_settings)
            /\ pc_main' = "get_settings"
            /\ main_error' = main_error
    /\ UNCHANGED <<cfgVars, avg_rtf, channel, fileVars, in_stream, out_stream, playVars,
                   queueVars, capVars, msgVars>>

\* synthesize.get_settings()
get_settings ==
    /\ pc_main = "get_settings"
    /\ IF EmitRaises(channel)
       THEN /\ Uncaught("BadNamespaceError")
            /\ sent' = sent
       ELSE /\ sent' = Emit(sent, "get_settings", <<>>)
            /\ pc_main' = "wave_open"
            /\ main_error' = main_error
    /\ UNCHANGED <<cfgVars, avg_rtf, channel, fileVars, in_stream, out_stream, playVars,
                   queueVars, capVars, msgVars>>

\* wav_file = wave.open(wav_file_path, 'wb') and its three setters
main_wave_open ==
    /\ pc_main = "wave_open"
    /\ wav' = "open"
    /\ pc_main' = "open_input"
    /\ UNCHANGED <<cfgVars, main_error, avg_rtf, channel, sent, wav_frames, wav_closes,
                   in_stream, out_stream, playVars, queueVars, capVars, msgVars>>

\* with sd.InputStream(callback=audio_callback, ...): opens and starts the
\* stream, or raises sd.PortAudioError, which the try block does not catch
main_open_input ==
    /\ pc_main = "open_input"
    /\ \E ok \in BOOLEAN :
        IF ok
        THEN /\ in_stream' = "active"
             /\ pc_main' = "open_output"
             /\ main_error' = main_error
        ELSE /\ Uncaught("PortAudioError")
             /\ in_stream' = in_stream
    /\ UNCHANGED <<cfgVars, avg_rtf, channel, sent, fileVars, out_stream, playVars,
                   queueVars, capVars, msgVars>>

\* with sd.OutputStream(callback=playback_callback, ...): on failure the
\* enclosing InputStream context closes the input stream on the way out
main_open_output ==
    /\ pc_main = "open_output"
    /\ \E ok \in BOOLEAN :
        IF ok
        THEN /\ out_stream' = "active"
             /\ pc_main' = "loop"
             /\ UNCHANGED <<main_error, in_stream>>
        ELSE /\ Uncaught("PortAudioError")
             /\ in_stream' = "closed"
             /\ out_stream' = out_stream
    /\ UNCHANGED <<cfgVars, avg_rtf, channel, sent, fileVars, playVars, queueVars,
                   capVars, msgVars>>

\* while True: sd.sleep(1)
main_sleep ==
    /\ pc_main = "loop"
    /\ UNCHANGED vars

\* a handler that goes straight to the cleanup, leaving the streams as they are
AfterInterrupt_nocontext(pc) == "wav_close"

\* the statement main() resumes at when KeyboardInterrupt is raised inside the
\* try block: the with-contexts entered so far are left innermost first
AfterInterrupt(pc) ==
    CASE pc = "loop" -> "close_output"
      [] pc = "open_output" -> "close_input"
      [] pc = "open_input" -> "wav_close"

\* Ctrl+C while main() is inside the try block
KeyboardInterrupt ==
    /\ pc_main \in {"open_input", "open_output", "loop"}
    /\ pc_main' = AfterInterrupt(pc_main)
    /\ UNCHANGED <<cfgVars, main_error, avg_rtf, channel, sent, fileVars, in_stream,
                   out_stream, playVars, queueVars, capVars, msgVars>>

\* an exit from the OutputStream context that leaves the stream running
main_close_output_running ==
    /\ pc_main = "close_output"
    /\ pc_play = "idle"
    /\ out_stream' = out_stream
    /\ pc_main' = "close_input"
    /\ UNCHANGED <<cfgVars, main_error, avg_rtf, channel, sent, fileVars, in_stream,
                   playVars, queueVars, capVars, msgVars>>

\* OutputStream.__exit__: stops and closes the stream; a running callback
\* finishes first
main_close_output ==
    /\ pc_main = "close_output"
    /\ pc_play = "idle"
    /\ out_stream' = "closed"
    /\ pc_main' = "close_input"
    /\ UNCHANGED <<cfgVars, main_error, avg_rtf, channel, sent, fileVars, in_stream,
                   playVars, queueVars, capVars, msgVars>>

\* InputStream.__exit__
main_close_input ==
    /\ pc_main = "close_input"
    /\ in_stream' = "closed"
    /\ pc_main' = "wav_close"
    /\ UNCHANGED <<cfgVars, main_error, avg_rtf, channel, sent, fileVars, out_stream,
                   playVars, queueVars, capVars, msgVars>>

\* wav_file.close()
main_wav_close ==
    /\ pc_main = "wav_close"
    /\ wav' = "closed"
    /\ wav_closes' = wav_closes + 1
    /\ pc_main' = "disconnect"
    /\ UNCHANGED <<cfgVars, main_error, avg_rtf, channel, sent, wav_frames, in_stream,
                   out_stream, playVars, queueVars, capVars, msgVars>>

\* sio.disconnect()
main_disconnect ==
    /\ pc_main = "disconnect"
    /\ channel' = "closed"
    /\ pc_main' = "report"
    /\ UNCHANGED <<cfgVars, main_error, avg_rtf, sent, fileVars, in_stream, out_stream,
                   playVars, queueVars, capVars, msgVars>>

\* logging.info(f'... Average RTF {sum(rtf_list[5:])/len(rtf_list[5:]):0.3f} ...')
main_report ==
    /\ pc_main = "report"
    /\ IF ReportFails(rtf_list)
       THEN /\ Uncaught("ZeroDivisionError")
            /\ avg_rtf' = avg_rtf
       ELSE /\ avg_rtf' = ReportValue(rtf_list)
            /\ pc_main' = "done"
            /\ main_error' = main_error
    /\ UNCHANGED <<cfgVars, channel, sent, fileVars, in_stream, out_stream, playVars,
                   queueVars, capVars, msgVars>>

----------------------------------------------------------------------------
(* The Socket.IO event thread: handlers of SynthesizeNamespace *)

\* the connection drops; on_disconnect only logs, and the client, built with
\* socketio.Client() and so with its default reconnection, starts reconnecting
on_disconnect ==
    /\ channel = "connected"
    /\ channel' = "lost"
    /\ UNCHANGED <<cfgVars, mainVars, sent, fileVars, in_stream, out_stream, playVars,
                   queueVars, capVars, msgVars>>

\* the client's reconnection succeeds; on_connect only logs
on_connect ==
    /\ channel = "lost"
    /\ channel' = "connected"
    /\ UNCHANGED <<cfgVars, mainVars, sent, fileVars, in_stream, out_stream, playVars,
                   queueVars, capVars, msgVars>>

\* the (audio_data, response_time) tuple on_response queues; seq (the number
\* of the put) and nbytes (the length of the payload the entry was decoded
\* from) label the entry and are not part of the program's tuple
JitterEntry(data, now, timestamp, n) ==
    [audio_data |-> Unpack(data),
     response_time |-> ResponseTime(now, timestamp),
     seq |-> n,
     nbytes |-> Len(data)]

\* on_response(msg): struct.error leaves the handler before the put
on_response ==
    /\ channel = "connected"
    /\ nPushed + nDropped < MaxPush
    /\ Len(playback_queue) < MaxQueue
    /\ \E data \in Payloads, now \in Clock, timestamp \in Timestamps :
        IF UnpackFails(data)
        THEN /\ nDropped' = nDropped + 1
             /\ resp_result' = "struct.error"
             /\ UNCHANGED <<playback_queue, nPushed>>
        ELSE /\ playback_queue' =
                    QueuePut(playback_queue,
                             JitterEntry(data, now, timestamp, nPushed + 1))
             /\ nPushed' = nPushed + 1
             /\ resp_result' = "queued"
             /\ nDropped' = nDropped
    /\ UNCHANGED <<cfgVars, mainVars, channel, sent, fileVars, in_stream, out_stream,
                   playVars, capVars, msgVars>>

\* the members of http.HTTPStatus
HTTPStatusCodes ==
    (100..103) \cup (200..208) \cup {226} \cup ((300..308) \ {306})
        \cup (400..418) \cup (421..426) \cup {428, 429, 431, 451}
        \cup (500..508) \cup {510, 511}

\* HTTPStatus(msg['status']) raises ValueError for a code that is no member
StatusFails(status) == status \notin HTTPStatusCodes

\* the logging call on_message picks for a status code
Severity(status) ==
    IF status < 300 THEN "info"
    ELSE IF status < 400 THEN "warning"
    ELSE "error"

\* a handler that treats an error status as a control signal and gives up the
\* connection
on_message_escalates ==
    /\ channel = "connected"
    /\ \E status \in Statuses :
        /\ msg_log' = IF StatusFails(status) THEN <<>> ELSE <<Severity(status)>>
        /\ msg_error' = IF StatusFails(status) THEN "ValueError" ELSE "none"
        /\ channel' = IF ~StatusFails(status) /\ Severity(status) = "error"
                      THEN "lost" ELSE channel
    /\ UNCHANGED <<cfgVars, mainVars, sent, fileVars, in_stream, out_stream,
                   playVars, queueVars, capVars>>

\* on_message(msg)
on_message ==
    /\ channel = "connected"
    /\ \E status \in Statuses :
        IF StatusFails(status)
        THEN /\ msg_log' = <<>>
             /\ msg_error' = "ValueError"
        ELSE /\ msg_log' = <<Severity(status)>>
             /\ msg_error' = "none"
    /\ UNCHANGED <<cfgVars, mainVars, channel, sent, fileVars, in_stream, out_stream,
                   playVars, queueVars, capVars>>

----------------------------------------------------------------------------
(* The capture callback *)

\* (x * 32767).astype(int16) for x = m / 1000: truncation toward zero
Quantize(m) ==
    IF m >= 0 THEN (m * 32767) \div 1000 ELSE 0 - (((0 - m) * 32767) \div 1000)

\* struct.pack('<h', v): two bytes, low first, two's complement
PackLE(v) ==
    LET u == IF v < 0 THEN v + 65536 ELSE v IN <<u % 256, u \div 256>>

\* struct.pack('<%sh' % len(audio_chunk), *audio_chunk)
Pack(samples) ==
    [i \in 1..(2 * Len(samples)) |-> PackLE(samples[(i + 1) \div 2])[2 - (i % 2)]]

\* (indata * 32767).astype(AUDIO_FORMAT).flatten(), packed
Encode(indata) == Pack([i \in 1..Len(indata) |-> Quantize(indata[i])])

\* audio_callback(indata, frames, t, status): an exception leaving the
\* callback makes PortAudio abort the stream; the status flags only reach the log
audio_callback ==
    /\ in_stream = "active"
    /\ nCaptured < MaxCapture
    /\ nCaptured' = nCaptured + 1
    /\ \E indata \in Indata, now \in Clock :
        IF EmitRaises(channel)
        THEN /\ cap_result' = "raised"
             /\ in_stream' = "aborted"
             /\ sent' = sent
        ELSE /\ sent' = Emit(sent, "request_conversion",
                             [timestamp |-> now, audio_data |-> Encode(indata)])
             /\ cap_result' = "sent"
             /\ in_stream' = in_stream
    /\ UNCHANGED <<cfgVars, mainVars, channel, fileVars, out_stream, playVars,
                   queueVars, msgVars>>

----------------------------------------------------------------------------
(* The playback callback *)

\* outdata[:audio_length, 0] = audio_data raises ValueError when the slice,
\* which holds min(audio_length, frames) cells, is shorter than audio_data
AssignFails(audio_length, frames) == audio_length > frames

\* outdata[:audio_length, 0] = audio_data
AssignHead(out, audio_data) ==
    [i \in 1..Len(out) |-> IF i <= Len(audio_data) THEN audio_data[i] ELSE out[i]]

\* outdata[audio_length:, 0] = 0
ZeroTail(out, audio_length) ==
    [i \in 1..Len(out) |-> IF i > audio_length THEN 0 ELSE out[i]]

\* outdata.fill(0)
Fill0(out) == [i \in 1..Len(out) |-> 0]

\* if audio_length < frames
IsShort(audio_length, frames) == audio_length < frames

\* lines 142-150 on the dequeued entry: the buffer, the samples appended to
\* rtf_list, the warnings and the exception leaving the callback, if any
PlayEntry(item, out, frames) ==
    LET audio_length == Len(item.audio_data)
        duration == PlaybackDuration(audio_length)
    IN  IF AssignFails(audio_length, frames)
        THEN [outdata |-> out, rtf |-> <<>>, log |-> {}, error |-> "ValueError"]
        ELSE IF ~RtfDivides(duration)
        THEN [outdata |-> AssignHead(out, item.audio_data), rtf |-> <<>>,
              log |-> {}, error |-> "ZeroDivisionError"]
        ELSE IF IsShort(audio_length, frames)
        THEN [outdata |-> ZeroTail(AssignHead(out, item.audio_data), audio_length),
              rtf |-> <<RtfSample(item.response_time, duration)>>,
              log |-> {"size_mismatch"}, error |-> "none"]
        ELSE [outdata |-> AssignHead(out, item.audio_data),
              rtf |-> <<RtfSample(item.response_time, duration)>>,
              log |-> {}, error |-> "none"]

\* playback_callback up to the test of playback_queue.empty(): the else branch
\* fills the buffer and returns, the then branch goes on to the get()
playback_check ==
    /\ out_stream = "active"
    /\ pc_play = "idle"
    /\ play_log' = {}
    /\ IF QueueEmpty(playback_queue)
       THEN /\ outdata' = Fill0(outdata)
            /\ play_result' = "silence"
            /\ pc_play' = "idle"
       ELSE /\ pc_play' = "get"
            /\ UNCHANGED <<outdata, play_result>>
    /\ UNCHANGED <<cfgVars, mainVars, channel, sent, fileVars, in_stream, out_stream,
                   rtf_list, nPopped, popped_seq, queueVars, capVars, msgVars>>

\* playback_queue.get() and the rest of the then branch; get() waits while the
\* queue is empty; an exception leaving the callback makes PortAudio abort
\* the stream
playback_get ==
    /\ pc_play = "get"
    /\ ~QueueEmpty(playback_queue)
    /\ LET r == PlayEntry(QueueHead(playback_queue), outdata, Frames)
       IN  /\ playback_queue' = QueueRest(playback_queue)
           /\ popped_seq' = QueueHead(playback_queue).seq
           /\ nPopped' = nPopped + 1
           /\ outdata' = r.outdata
           /\ rtf_list' = rtf_list \o r.rtf
           /\ play_log' = play_log \cup r.log
           /\ play_result' = IF r.error = "none" THEN "played" ELSE r.error
           /\ out_stream' = IF r.error = "none" THEN out_stream ELSE "aborted"
    /\ pc_play' = "idle"
    /\ UNCHANGED <<cfgVars, mainVars, channel, sent, fileVars, in_stream, resp_result,
                   nPushed, nDropped, capVars, msgVars>>

----------------------------------------------------------------------------
Next ==
    \/ parse_args
    \/ select_devices
    \/ main_connect
    \/ change_settings
    \/ get_settings
    \/ main_wave_open
    \/ main_open_input
    \/ main_open_output
    \/ main_sleep
    \/ KeyboardInterrupt
    \/ main_close_output
    \/ main_close_input
    \/ main_wav_close
    \/ main_disconnect
    \/ main_report
    \/ on_disconnect
    \/ on_connect
    \/ on_response
    \/ on_message
    \/ audio_callback
    \/ playback_check
    \/ playback_get

Spec == Init /\ [][Next]_vars

\* the main thread's steps other than waiting for the user's choice of devices
\* and waiting in the loop
MainProgress ==
    \/ parse_args
    \/ main_connect
    \/ change_settings
    \/ get_settings
    \/ main_wave_open
    \/ main_open_input
    \/ main_open_output
    \/ main_close_output
    \/ main_close_input
    \/ main_wav_close
    \/ main_disconnect
    \/ main_report

\* the main thread keeps running, and a callback that has started runs to its
\* end; neither the user nor the network is obliged to do anything
LiveSpec ==
    /\ Init
    /\ [][Next]_vars
    /\ WF_vars(MainProgress)
    /\ WF_vars(playback_get)

----------------------------------------------------------------------------
(* The codec on its own: a captured block through audio_callback's encoding
   and on_response's decoding *)

CodecInit ==
    /\ InitSession
    /\ args = [input_device |-> None, output_device |-> None]
    /\ \E x \in CodecIndata :
           codec = [pc |-> "encode", indata |-> x, audio_chunk |-> <<>>,
                    audio_data |-> <<>>, unpacked |-> <<>>]

\* audio_chunk = (indata * 32767).astype(AUDIO_FORMAT).flatten()
\* audio_data = struct.pack('<%sh' % len(audio_chunk), *audio_chunk)
codec_encode ==
    /\ codec.pc = "encode"
    /\ LET audio_chunk ==
               [i \in 1..Len(codec.indata) |-> Quantize(codec.indata[i])]
       IN  codec' = [codec EXCEPT !.pc = "decode",
                                  !.audio_chunk = audio_chunk,
                                  !.audio_data = Pack(audio_chunk)]
    /\ UNCHANGED <<args, mainVars, channel, sent, fileVars, in_stream,
                   out_stream, playVars, queueVars, capVars, msgVars>>

\* unpacked_data = struct.unpack('<%sh' % (len(data) // 2), data)
\* audio_data = np.array(unpacked_data, dtype=AUDIO_FORMAT)
codec_decode ==
    /\ codec.pc = "decode"
    /\ IF UnpackFails(codec.audio_data)
       THEN codec' = [codec EXCEPT !.pc = "struct.error"]
       ELSE codec' = [codec EXCEPT !.pc = "done",
                                   !.unpacked = Unpack(codec.audio_data)]
    /\ UNCHANGED <<args, mainVars, channel, sent, fileVars, in_stream,
                   out_stream, playVars, queueVars, capVars, msgVars>>

CodecNext ==
    \/ codec_encode
    \/ codec_decode

CodecSpec == CodecInit /\ [][CodecNext]_vars

----------------------------------------------------------------------------
(* The session lifecycle of the specification, read off main()'s position *)

Lifecycle(pc) ==
    CASE pc \in {"parse_args", "select_devices"} -> "NotStarted"
      [] pc = "connect" -> "Connecting"
      [] pc \in {"change_settings", "get_settings", "wave_open", "open_input",
                 "open_output"} -> "Handshaking"
      [] pc = "loop" -> "Streaming"
      [] pc \in {"close_output", "close_input", "wav_close"} -> "Draining"
      [] pc \in {"disconnect", "report", "done", "failed"} -> "Closed"

StepRank(pc) ==
    CASE pc = "parse_args" -> -2
      [] pc = "select_devices" -> -1
      [] pc = "connect" -> 0
      [] pc = "change_settings" -> 1
      [] pc = "get_settings" -> 2
      [] pc = "wave_open" -> 3
      [] pc = "open_input" -> 4
      [] pc = "open_output" -> 5
      [] pc = "loop" -> 6
      [] pc = "close_output" -> 7
      [] pc = "close_input" -> 8
      [] pc = "wav_close" -> 9
      [] pc = "disconnect" -> 10
      [] pc = "report" -> 11
      [] pc = "done" -> 12
      [] pc = "failed" -> 12

----------------------------------------------------------------------------
(* Properties *)

\* C1: the jitter buffer is FIFO under every interleaving of on_response and
\* playback_callback: the entries waiting are exactly the puts nPopped+1 ..
\* nPushed in put order, so puts = gets + queue length, and the k-th get
\* returned the k-th put (nothing is returned twice, nothing is skipped).
C1_JitterFifo ==
    /\ nPushed = nPopped + Len(playback_queue)
    /\ \A i \in 1..Len(playback_queue) : playback_queue[i].seq = nPopped + i
    /\ popped_seq = nPopped

\* three puts interleaved with two gets
C1_Witness ==
    /\ nPushed = 3
    /\ nPopped = 2
    /\ Len(playback_queue) = 1
    /\ play_result = "played"

\* C2: the playback callback never waits on the queue: whenever it stands
\* between its empty() test and its get(), the queue holds an entry; and an
\* invocation that finds the queue empty fills the whole buffer with zeros
\* and returns.
C2_PlaybackNeverWaits ==
    /\ [](pc_play = "get" => Len(playback_queue) > 0)
    /\ [][(playback_check /\ Len(playback_queue) = 0)
            => (outdata' = Zeros /\ pc_play' = "idle" /\ play_result' = "silence")]_vars

\* a callback between test and get while the inbound handler can still run,
\* after an earlier invocation that found the queue empty
C2_Witness ==
    /\ pc_play = "get"
    /\ play_result = "silence"
    /\ channel = "connected"
    /\ nPushed + nDropped < MaxPush
    /\ Len(playback_queue) < MaxQueue

\* C3: the playback callback never throws, whatever the length of the
\* dequeued block, and the output stream keeps running.
C3_PlaybackNeverThrows ==
    /\ play_result \in {"none", "silence", "played"}
    /\ out_stream # "aborted"

\* C4: the number of RTF samples equals the number of playback invocations
\* that dequeued an entry.
C4_SamplePerDequeue == Len(rtf_list) = nPopped

\* C5: the RTF report at teardown finishes without an error for any number
\* of recorded samples.
C5_ReportGuarded ==
    channel = "closed" /\ pc_main \in {"done", "failed"}
        => pc_main = "done" /\ main_error = "none"

\* C6: main() moves through its steps in one direction only; settings go out
\* on a connected channel, the settings request follows the settings, the
\* recording and the device streams are opened after both, the streams are
\* closed before the recording, the recording before the channel, the channel
\* before the report; and once the channel is closed nothing is captured,
\* played, sent or disconnected any more.
C6_StateOrder ==
    /\ sent # <<>> => channel # "idle" /\ sent[1].event = "update_model_settings"
    /\ Len(sent) >= 2 => sent[2].event = "get_settings"
    /\ (wav # "unopened" \/ in_stream # "closed" \/ out_stream # "closed")
            => Len(sent) >= 2
    /\ out_stream # "closed" => in_stream # "closed" /\ wav = "open"
    /\ in_stream # "closed" => wav = "open"
    /\ wav = "closed" => in_stream = "closed" /\ out_stream = "closed"
    /\ channel = "closed" => wav = "closed"
    /\ (avg_rtf # <<>> \/ main_error = "ZeroDivisionError") => channel = "closed"
    /\ Lifecycle(pc_main) = "Streaming"
            => in_stream # "closed" /\ out_stream # "closed"

C6_StepOrder ==
    /\ StepRank(pc_main') >= StepRank(pc_main)
    /\ channel = "closed"
            => /\ UNCHANGED <<sent, channel, in_stream, out_stream, wav>>
               /\ UNCHANGED <<nCaptured, nPopped, outdata, pc_play>>

C6_LifecycleOrder == []C6_StateOrder /\ [][C6_StepOrder]_vars

\* a session that captured and played, was interrupted and has disconnected
C6_Witness ==
    /\ pc_main = "report"
    /\ channel = "closed"
    /\ nCaptured >= 1
    /\ nPopped >= 1

\* C7: after the connection is lost during Streaming the session leaves
\* Streaming and reaches Closed.
C7_LossEndsSession ==
    (pc_main = "loop" /\ channel = "lost") ~> (Lifecycle(pc_main) = "Closed")

\* C8: a failed connect ends main() at once: nothing was sent, the recording
\* was not opened, no device stream was opened and no callback ran.
C8_ConnectFailureClean ==
    main_error = "ConnectionError"
        => /\ pc_main = "failed"
           /\ channel = "idle"
           /\ sent = <<>>
           /\ wav = "unopened" /\ wav_closes = 0
           /\ in_stream = "closed" /\ out_stream = "closed"
           /\ nCaptured = 0 /\ cap_result = "none"
           /\ nPopped = 0 /\ play_result = "none" /\ pc_play = "idle"

C8_Witness == pc_main = "failed" /\ main_error = "ConnectionError"

\* C9: a capture callback invoked while the channel is not connected drops
\* the frame and returns normally, changing nothing else.
C9_CaptureDropsQuietly ==
    [][(audio_callback /\ channel # "connected")
            => (cap_result' # "raised" /\ in_stream' = in_stream /\ sent' = sent)]_vars

\* C10: a payload whose byte length is odd is never enqueued: every entry
\* in the queue was decoded from 2 bytes per sample, and the handler
\* invocation that raises leaves the queue, the streams, the channel and
\* main() as they were, so that later frames are still handled.
C10_EntriesWellFormed ==
    \A i \in 1..Len(playback_queue) :
        /\ playback_queue[i].nbytes % 2 = 0
        /\ 2 * Len(playback_queue[i].audio_data) = playback_queue[i].nbytes

C10_DropStep ==
    nDropped' # nDropped
        => /\ UNCHANGED <<playback_queue, nPushed, pc_main, main_error, channel>>
           /\ UNCHANGED <<in_stream, out_stream, pc_play, rtf_list, outdata>>

C10_MalformedDropped == []C10_EntriesWellFormed /\ [][C10_DropStep]_vars

\* a malformed frame was dropped during Streaming, a later frame was queued
\* and has been played
C10_Witness ==
    /\ nDropped = 1
    /\ nPushed = 1
    /\ resp_result = "queued"
    /\ nPopped = 1
    /\ play_result = "played"
    /\ pc_main = "loop"

\* C11: every block dequeued and played is appended to the recording before
\* the file is closed, so the closed recording holds the played blocks.
C11_RecordingComplete ==
    wav = "closed" => Len(wav_frames) = Len(rtf_list)

\* C12: a session that connected the channel and opened the recording ends
\* with the recording closed exactly once and the channel disconnected,
\* whatever ended it.
C12_ResourcesReleased ==
    pc_main \in {"done", "failed"} /\ wav # "unopened"
        => wav = "closed" /\ wav_closes = 1 /\ channel = "closed"

\* C13: the status-message handler never fails and logs exactly once for
\* every status code it is given.
C13_ClassificationTotal ==
    /\ msg_error = "none"
    /\ \A i \in 1..Len(msg_log) : msg_log[i] \in {"info", "warning", "error"}

\* C14: handling a status message of any severity changes nothing but the
\* record of the message: the jitter buffer, the RTF samples, the
\* connection, the streams, the recording and main()'s position stay as
\* they were.
C14_MessageFrame ==
    (on_message \/ msg_log' # msg_log \/ msg_error' # msg_error)
        => /\ UNCHANGED <<playback_queue, nPushed, nDropped, rtf_list, nPopped>>
           /\ UNCHANGED <<channel, pc_main, main_error, in_stream, out_stream>>
           /\ UNCHANGED <<sent, wav, wav_frames, outdata, pc_play>>

C14_StatusObservational == [][C14_MessageFrame]_vars

\* an error status handled during Streaming with an entry waiting and a
\* sample recorded
C14_Witness ==
    /\ msg_log = <<"error">>
    /\ pc_main = "loop"
    /\ channel = "connected"
    /\ Len(playback_queue) >= 1
    /\ Len(rtf_list) >= 1

\* main() has left both stream contexts: it is at wav_file.close() or beyond
C15_StreamsLeft ==
    \/ pc_main \in {"wav_close", "disconnect", "report", "done"}
    \/ pc_main = "failed" /\ main_error = "ZeroDivisionError"

C15_Stopped ==
    /\ C15_StreamsLeft
    /\ in_stream # "active"
    /\ out_stream # "active"
    /\ pc_play = "idle"

\* C15: once main() has left the stream contexts after an interrupt, both
\* device streams are closed and stay closed; from then on no outbound frame
\* is sent, nothing is popped from the jitter buffer, no RTF sample is added
\* and the output buffer is not written, so entries waiting in the buffer
\* and entries arriving later are never played.
C15_PipelineStops ==
    /\ [](C15_StreamsLeft => C15_Stopped)
    /\ [][C15_Stopped =>
            /\ C15_Stopped'
            /\ UNCHANGED <<sent, nCaptured, nPopped, popped_seq, rtf_list, outdata>>
            /\ Len(playback_queue') >= Len(playback_queue)
            /\ \A i \in 1..Len(playback_queue) :
                   playback_queue'[i] = playback_queue[i]]_vars

\* the streams are closed after blocks were captured and played, and two
\* entries are left in the jitter buffer
C15_Witness ==
    /\ pc_main = "disconnect"
    /\ in_stream = "closed"
    /\ out_stream = "closed"
    /\ Len(playback_queue) = 2
    /\ nPopped >= 1
    /\ cap_result = "sent"

\* C18: when a block of length L <= F is dequeued, the output buffer afterwards
\* holds the L decoded samples followed by F - L zeros (nothing of an earlier
\* invocation is left), and the size-mismatch warning is logged exactly
\* when L < F.
C18_PlaybackOutput ==
    [][nPopped' = nPopped + 1
         /\ Len(QueueHead(playback_queue).audio_data) <= Frames
       => LET a == QueueHead(playback_queue).audio_data
          IN  /\ outdata' = [i \in 1..Frames |-> IF i <= Len(a) THEN a[i] ELSE 0]
              /\ ("size_mismatch" \in play_log') <=> (Len(a) < Frames)]_vars

\* the dequeue of an entry that appends an RTF sample; a sample <<n, d>> equals
\* t / (1000 * k / SAMPLERATE) when n * 1000 * k = t * SAMPLERATE * d, written
\* below with both sides divided by 1000, which divides SAMPLERATE
C19_SampleStep ==
    /\ nPopped' = nPopped + 1
    /\ Len(rtf_list') = Len(rtf_list) + 1

\* C19 as stated: the sample recorded for a played block is the entry's
\* response time divided by 1000 * chunk_size / sample_rate, chunk_size being
\* the block size of the stream.
C19_SampleByChunkSize ==
    [][C19_SampleStep
       => LET s == rtf_list'[Len(rtf_list')]
              e == QueueHead(playback_queue)
          IN  s[1] * Frames
                = e.response_time * (SAMPLERATE \div 1000) * s[2]]_vars

\* C19 amended: the sample recorded for a played block is the entry's
\* response time divided by 1000 * audio_length / sample_rate, audio_length
\* being the number of samples of the decoded block; the two agree exactly
\* when the block has the block size of the stream.
C19_SampleByBlockLength ==
    [][C19_SampleStep
       => LET s == rtf_list'[Len(rtf_list')]
              e == QueueHead(playback_queue)
          IN  /\ s[2] # 0
              /\ s[1] * Len(e.audio_data)
                    = e.response_time * (SAMPLERATE \div 1000) * s[2]
              /\ (Len(e.audio_data) = Frames
                    => s[1] * Frames
                         = e.response_time * (SAMPLERATE \div 1000) * s[2])]_vars

\* a block shorter than the block size of the stream was played and sampled
C19_Witness ==
    /\ play_result = "played"
    /\ "size_mismatch" \in play_log
    /\ Len(rtf_list) >= 1
    /\ rtf_list[Len(rtf_list)][2] < 1000 * Frames

\* C20: the outbound events are, in order, one update_model_settings carrying
\* the VoiceSettings record handed to main(), one get_settings, and then
\* only request_conversion frames; both settings events are out before the
\* recording or a device stream is opened, hence before any audio frame.
C20_HandshakeFirst ==
    /\ \A i \in 1..Len(sent) :
        /\ i = 1 => sent[i] = [event |-> "update_model_settings",
                               data |-> voice_settings]
        /\ i = 2 => sent[i] = [event |-> "get_settings", data |-> <<>>]
        /\ i >= 3 => sent[i].event = "request_conversion"
    /\ voice_settings.extraConvertSize = 8192
    /\ voice_settings.vad = 2
    /\ (wav # "unopened" \/ in_stream # "closed" \/ out_stream # "closed")
            => Len(sent) >= 2

\* an audio frame has gone out after the two settings events
C20_Witness ==
    /\ Len(sent) = 3
    /\ sent[1].event = "update_model_settings"
    /\ sent[2].event = "get_settings"
    /\ sent[3].event = "request_conversion"

\* exactly one of --input_device and --output_device is given
C17_OneGiven ==
    \/ args.input_device # None /\ args.output_device = None
    \/ args.input_device = None /\ args.output_device # None

C17_Untouched ==
    /\ channel = "idle"
    /\ in_stream = "closed"
    /\ out_stream = "closed"
    /\ wav = "unopened"
    /\ sent = <<>>

\* C17: parse_args ends the program with SystemExit exactly when one device
\* of the pair is given without the other, and lets both-given and
\* neither-given through to the device selection; at the rejection the
\* channel has not been connected and no stream has been opened, and they
\* never are afterwards.
C17_PairingValidated ==
    /\ [](pc_main = "parse_args" \/ main_error = "SystemExit" => C17_Untouched)
    /\ [](main_error = "SystemExit" => pc_main = "failed" /\ C17_OneGiven)
    /\ [](pc_main = "select_devices" => ~C17_OneGiven /\ main_error = "none")
    /\ [][pc_main = "parse_args" /\ pc_main' # pc_main
            => IF C17_OneGiven
               THEN pc_main' = "failed" /\ main_error' = "SystemExit"
               ELSE pc_main' = "select_devices" /\ args' = args]_vars

\* only the output device was given and the program was ended by parse_args
C17_Witness ==
    /\ main_error = "SystemExit"
    /\ pc_main = "failed"
    /\ args.input_device = None
    /\ args.output_device = 1

\* C16: the int16 sequence the capture side packs is the sequence the
\* inbound decoding returns from the same bytes: decoding does not fail,
\* and the result has the same values in the same order and one sample for
\* every two bytes.
C16_CodecRoundTrip ==
    /\ codec.pc # "struct.error"
    /\ codec.pc = "done"
        => /\ codec.unpacked = codec.audio_chunk
           /\ Len(codec.unpacked) * 2 = Len(codec.audio_data)
           /\ Len(codec.unpacked) = Len(codec.indata)
           /\ \A i \in 1..Len(codec.unpacked) :
                  /\ codec.unpacked[i] \in -32768..32767
                  /\ codec.unpacked[i] * 1000 <= 32767 * codec.indata[i]
                        \/ codec.indata[i] < 0
                  /\ codec.unpacked[i] * 1000 >= 32767 * codec.indata[i]
                        \/ codec.indata[i] > 0

\* a block with a negative full-scale sample and a sample that does not
\* quantize to a whole number has gone through both directions
C16_Witness ==
    /\ codec.pc = "done"
    /\ codec.indata = <<-1000, 500>>
    /\ codec.unpacked = <<-32767, 16383>>
    /\ Len(codec.audio_data) = 4

====
